---- MODULE Spec2Model ----
(***************************************************************************)
(* Model of the training script src/dqn_mountaincar.py (DQN on MountainCar) *)
(*                                                                         *)
(* The script is one sequential control flow: a for-loop over episodes, a  *)
(* while-loop over environment steps, and inside it action selection, the  *)
(* 200-step cap, reward shaping, the replay buffer, the gated gradient     *)
(* update and the end-of-episode bookkeeping.                              *)
(*                                                                         *)
(* Numbers.  Floats are modelled by exact fixed-point integers:            *)
(*   - positions (observation[0]) in tenths,                               *)
(*   - rewards, Q-values and targets in thousandths,                       *)
(*   - eps in units of 1/(20*N_RANDOM), so that 0.05 = N_RANDOM and        *)
(*     0.95 = 19*N_RANDOM are exact.                                       *)
(* An observation is modelled by its position component only (the velocity *)
(* is carried around by the script but never inspected by it).             *)
(***************************************************************************)
EXTENDS Integers, Sequences, FiniteSets, TLC

\* ------------------------------------------------------------------------
\* Hyper-parameters.  The script fixes them at lines 70-79 and 108; the model
\* runs the same code on scaled-down values so that whole runs can be
\* enumerated.  Derived quantities keep the script's formulas.
\* ------------------------------------------------------------------------
\* line 70: batch_size = 128
batch_size == 1
\* line 76: N_RANDOM = 2000.
N_RANDOM == 4
\* line 77: N_EPISODES = 500
N_EPISODES == 2
\* line 108: the literal 200 of "if i_ep > 200"
MAX_EP_STEPS == 3
\* line 72: gamma = 1.
gamma == 1
\* line 78: N_MIN_TRANSITIONS = batch_size*3
N_MIN_TRANSITIONS == batch_size * 3
\* line 79: MAX_SIZE_BUFFER = batch_size*1000
MAX_SIZE_BUFFER_shrunk == batch_size * 3
MAX_SIZE_BUFFER == batch_size * 1000

\* The values the script ships with (lines 70, 77, 108); they only state the
\* arithmetic of the shipped configuration.
Shipped_batch_size == 128
Shipped_N_EPISODES == 500
Shipped_MAX_EP_STEPS == 200

\* ------------------------------------------------------------------------
\* Input sets
\* ------------------------------------------------------------------------
\* the three discrete actions (fc3 has 3 outputs, line 30)
Actions == {0, 1, 2}
\* positions in tenths: left of the goal, at the goal
Positions == {-5, 5}
\* positions env.reset() can return (the car starts in the valley)
ResetPositions == {-5}
\* what env.step can return, <<position, done>>: still driving, stopped by the
\* environment short of the goal, stopped at the goal
EnvOutcomes == { <<-5, FALSE>>, <<-5, TRUE>>, <<5, TRUE>> }

VARIABLES
    pc,             \* control location of the script
    i_episode,      \* the for-loop variable: index of the current episode,
                    \* at "for" the value the loop takes next
    i,              \* global step count (line 74)
    i_ep,           \* step count of the current episode
    eps,            \* eps of the current step, in units of 1/(20*N_RANDOM)
    observation,    \* <<>> for None, <<position>> otherwise
    action,
    env_done,       \* the done flag as env.step returned it
    done,
    reward,
    cum_reward,
    transition,
    replay_memory,  \* the Buffer: a sequence of transitions, oldest first
    cum_rewards,
    i_eps,
    training,       \* dqn.training, the mode flag of the network
    theta,          \* the parameters of the network
    batch,
    target,
    loss,
    env_closed,     \* number of env.close() calls executed
    act_mode,       \* dqn.training during the last forward pass of dqn.action
    target_mode,    \* dqn.training during the last bootstrap forward pass
    loss_mode,      \* dqn.training during the last loss forward pass
    n_updates,      \* number of optim.step() calls executed
    sample_n        \* buffer occupancy at the last replay_memory.sample call

vars == <<pc, i_episode, i, i_ep, eps, observation, action, env_done, done,
          reward, cum_reward, transition, replay_memory, cum_rewards, i_eps,
          training, theta, batch, target, loss, env_closed, act_mode,
          target_mode, loss_mode, n_updates, sample_n>>

\* ------------------------------------------------------------------------
\* Pure helpers
\* ------------------------------------------------------------------------
Min(a, b) == IF a < b THEN a ELSE b
Max(a, b) == IF a > b THEN a ELSE b

\* np.clip(x, lo, hi) = minimum(maximum(x, lo), hi)
np_clip(x, lo, hi) == Min(Max(x, lo), hi)

\* line 98: eps = float(np.clip(1 - i/N_RANDOM, 0.05, .95)), times 20*N_RANDOM
eps_of_twice_as_fast(step) == np_clip(20 * N_RANDOM - 40 * step, N_RANDOM, 19 * N_RANDOM)
eps_of(step) == np_clip(20 * N_RANDOM - 20 * step, N_RANDOM, 19 * N_RANDOM)

\* lines 108-109: if i_ep > 200: done = True
stop_if_200_early(steps, d) == IF steps >= MAX_EP_STEPS THEN TRUE ELSE d
stop_if_200(steps, d) == IF steps > MAX_EP_STEPS THEN TRUE ELSE d

\* .995**n in units of 1/10000, rounded down at each multiplication
RECURSIVE pow995(_)
pow995(n) == IF n = 0 THEN 10000 ELSE (pow995(n - 1) * 995) \div 1000

\* (observation[0] >= .5)*2. + ((observation[0] + 2.2)**2)/(2.7**2), in thousandths
position_score(pos) ==
    (IF pos >= 5 THEN 2000 ELSE 0) + (((pos + 22) * (pos + 22)) * 1000) \div 729

\* line 111: the shaped reward, in thousandths
shaped_reward_always(d, steps, pos) ==
    (pow995(steps) * position_score(pos)) \div 10000
shaped_reward(d, steps, pos) ==
    IF ~d THEN 0 ELSE (pow995(steps) * position_score(pos)) \div 10000

\* dqn.eval() and dqn.train() (torch.nn.Module): set self.training
dqn_eval_noop(mode) == mode
dqn_eval(mode) == FALSE
dqn_train(mode) == TRUE

\* The parameters of the network, abstracted to the table of action values
\* they induce: theta[position] = <<Q(s,0), Q(s,1), Q(s,2)>> in thousandths.
\* The final ReLU and sign = 1 (lines 41, 67) make every value non-negative.
Thetas ==
    { [p \in Positions |-> <<0, 0, 0>>],
      [p \in Positions |-> IF p < 0 THEN <<300, 100, 200>> ELSE <<0, 500, 100>>] }

\* the network as constructed at line 67
theta0 == [p \in Positions |-> <<0, 0, 0>>]

\* value np.random.random() returns (line 55), in units of 1/(20*N_RANDOM): 0.5
UDraws == { 10 * N_RANDOM }
\* value t.rand_like returns for a 3-vector (line 57), in thousandths
RandVecs == { <<100, 500, 900>> }

\* DQN.forward on a single state (lines 34-45)
forward(th, x) == th[x[1]]

\* t.argmax over a 3-vector: index (0-based) of the first maximal entry
argmax(v) ==
    CHOOSE a \in Actions :
        /\ \A b \in Actions : v[a + 1] >= v[b + 1]
        /\ \A b \in Actions : (b < a) => v[b + 1] < v[a + 1]

\* t.max(dqn.forward(s_), 1)[0] for one row
max_q(th, x) == Max(forward(th, x)[1], Max(forward(th, x)[2], forward(th, x)[3]))

\* DQN.action (lines 47-60): u is the uniform draw, rv the random vector
dqn_action(th, x, u, e, rv) ==
    IF u < e THEN argmax(rv) ELSE argmax(forward(th, x))

\* Buffer is imported from utils (line 14), which is not among the sources at
\* hand; add, n and sample follow its documented contract.
\* Buffer.add: append, and drop the oldest entry beyond the capacity
buffer_add(buf, tr, capacity) ==
    IF Len(buf) + 1 > capacity THEN Tail(Append(buf, tr)) ELSE Append(buf, tr)

\* Buffer.n: current occupancy
buffer_n(buf) == Len(buf)

\* the increasing index tuples of length k within lo..hi
RECURSIVE picks(_, _, _)
picks(lo, hi, k) ==
    IF k = 0 THEN { <<>> }
    ELSE IF hi - lo + 1 < k THEN {}
    ELSE { <<lo>> \o rest : rest \in picks(lo + 1, hi, k - 1) }
         \cup picks(lo + 1, hi, k)

\* Buffer.sample(k): k distinct stored transitions (the loss is a mean over the
\* batch, so the batch is listed in storage order)
buffer_sample(buf, k) ==
    { [j \in 1..k |-> buf[idx[j]]] : idx \in picks(1, Len(buf), k) }

\* lines 134-136: target = r ; target[1 - d] += gamma * max_a Q(s', a)
\* (d is a byte tensor, so 1 - d is the mask of the non-terminal rows)
compute_target_unmasked(b, th) ==
    [j \in 1..Len(b) |-> b[j].r + gamma * max_q(th, b[j].s2)]
compute_target(b, th) ==
    [j \in 1..Len(b) |->
        IF b[j].d THEN b[j].r ELSE b[j].r + gamma * max_q(th, b[j].s2)]

\* lines 139-141: q = Q(s, a) ; loss = mean((q - target)^2), times len(batch)
RECURSIVE sum_sq_err(_, _, _, _)
sum_sq_err(b, tg, th, j) ==
    IF j = 0 THEN 0
    ELSE sum_sq_err(b, tg, th, j - 1)
         + (forward(th, b[j].s)[b[j].a + 1] - tg[j])
           * (forward(th, b[j].s)[b[j].a + 1] - tg[j])
compute_loss(b, tg, th) == sum_sq_err(b, tg, th, Len(b))

\* line 123: if replay_memory.n > N_MIN_TRANSITIONS
train_gate_nonempty(n) == n > 0
train_gate(n) == n > N_MIN_TRANSITIONS

\* ------------------------------------------------------------------------
\* Initial state: lines 64-84
\* ------------------------------------------------------------------------
Init ==
    /\ pc = "for"
    /\ i_episode = 0
    /\ i = 0
    /\ i_ep = 0
    /\ eps = 0
    /\ observation = <<>>
    /\ action = 0
    /\ env_done = FALSE
    /\ done = FALSE
    /\ reward = 0
    /\ cum_reward = 0
    /\ transition = <<>>
    /\ replay_memory = <<>>
    /\ cum_rewards = <<>>
    /\ i_eps = <<>>
    /\ training = TRUE          \* a freshly built torch module is in training mode
    /\ theta = theta0
    /\ batch = <<>>
    /\ target = <<>>
    /\ loss = 0
    /\ env_closed = 0
    /\ act_mode = FALSE
    /\ target_mode = FALSE
    /\ loss_mode = FALSE
    /\ n_updates = 0
    /\ sample_n = 0

\* ------------------------------------------------------------------------
\* Actions
\* ------------------------------------------------------------------------
\* lines 86-92: the for-loop takes its next value; the episode is set up
EpisodeStart ==
    /\ pc = "for"
    /\ i_episode < N_EPISODES
    /\ \E p \in ResetPositions : observation' = <<p>>
    /\ cum_reward' = 0
    /\ done' = FALSE
    /\ i_ep' = 0
    /\ pc' = "while"
    /\ UNCHANGED <<i_episode, i, eps, action, env_done, reward, transition,
                   replay_memory, cum_rewards, i_eps, training, theta, batch,
                   target, loss, env_closed, act_mode, target_mode, loss_mode,
                   n_updates, sample_n>>

\* lines 93-120: one pass of the while-body up to replay_memory.add
Interact ==
    /\ pc = "while"
    /\ ~done
    /\ \E u \in UDraws, rv \in RandVecs, out \in EnvOutcomes :
         LET i1    == i + 1
             i_ep1 == i_ep + 1
             eps1  == eps_of(i1)
             mode1 == dqn_eval(training)
             a1    == dqn_action(theta, observation, u, eps1, rv)
             obs1  == <<out[1]>>
             done1 == stop_if_200(i_ep1, out[2])
             rew1  == shaped_reward(done1, i_ep1, obs1[1])
             tr1   == [s |-> observation, a |-> a1, s2 |-> obs1,
                       d |-> done1, r |-> rew1]
         IN  /\ i' = i1
             /\ i_ep' = i_ep1
             /\ eps' = eps1
             /\ training' = mode1
             /\ act_mode' = mode1
             /\ action' = a1
             /\ observation' = obs1
             /\ env_done' = out[2]
             /\ done' = done1
             /\ reward' = rew1
             /\ cum_reward' = cum_reward + rew1
             /\ transition' = tr1
             /\ replay_memory' = buffer_add(replay_memory, tr1, MAX_SIZE_BUFFER)
    /\ pc' = "gate"
    /\ UNCHANGED <<i_episode, cum_rewards, i_eps, theta, batch, target, loss,
                   env_closed, target_mode, loss_mode, n_updates, sample_n>>

\* lines 123-136: the gate is open; sample a batch and build its target
SampleAndTarget ==
    /\ pc = "gate"
    /\ train_gate(buffer_n(replay_memory))
    /\ \E b \in buffer_sample(replay_memory, batch_size) :
         LET mode1 == dqn_eval(training)
         IN  /\ sample_n' = buffer_n(replay_memory)
             /\ batch' = b
             /\ training' = mode1
             /\ target_mode' = mode1
             /\ target' = compute_target(b, theta)
    /\ pc' = "fit"
    /\ UNCHANGED <<i_episode, i, i_ep, eps, observation, action, env_done, done,
                   reward, cum_reward, transition, replay_memory, cum_rewards,
                   i_eps, theta, loss, env_closed, act_mode, loss_mode,
                   n_updates>>

\* lines 138-144: loss in training mode, backward, one optimizer step.  The
\* step can leave the parameters at any setting.
GradientStep ==
    /\ pc = "fit"
    /\ LET mode2 == dqn_train(training)
       IN  /\ training' = mode2
           /\ loss_mode' = mode2
    /\ loss' = compute_loss(batch, target, theta)
    /\ \E th \in Thetas : theta' = th
    /\ n_updates' = n_updates + 1
    /\ pc' = "check"
    /\ UNCHANGED <<i_episode, i, i_ep, eps, observation, action, env_done, done,
                   reward, cum_reward, transition, replay_memory, cum_rewards,
                   i_eps, batch, target, env_closed, act_mode, target_mode,
                   sample_n>>

\* line 123, condition false: no update at this step
SkipTrain ==
    /\ pc = "gate"
    /\ ~train_gate(buffer_n(replay_memory))
    /\ pc' = "check"
    /\ UNCHANGED <<i_episode, i, i_ep, eps, observation, action, env_done, done,
                   reward, cum_reward, transition, replay_memory, cum_rewards,
                   i_eps, training, theta, batch, target, loss, env_closed,
                   act_mode, target_mode, loss_mode, n_updates, sample_n>>

\* lines 146-149: the episode is over; record its statistics, leave the while-loop
EpisodeEnd_global_count ==
    /\ pc = "check"
    /\ done
    /\ cum_rewards' = Append(cum_rewards, cum_reward)
    /\ i_eps' = Append(i_eps, i)
    /\ i_episode' = i_episode + 1
    /\ pc' = "for"
    /\ UNCHANGED <<i, i_ep, eps, observation, action, env_done, done, reward,
                   cum_reward, transition, replay_memory, training, theta, batch,
                   target, loss, env_closed, act_mode, target_mode, loss_mode,
                   n_updates, sample_n>>
EpisodeEnd ==
    /\ pc = "check"
    /\ done
    /\ cum_rewards' = Append(cum_rewards, cum_reward)
    /\ i_eps' = Append(i_eps, i_ep)
    /\ i_episode' = i_episode + 1
    /\ pc' = "for"
    /\ UNCHANGED <<i, i_ep, eps, observation, action, env_done, done, reward,
                   cum_reward, transition, replay_memory, training, theta, batch,
                   target, loss, env_closed, act_mode, target_mode, loss_mode,
                   n_updates, sample_n>>

\* line 146 false, line 93 true: next pass of the while-loop
Continue ==
    /\ pc = "check"
    /\ ~done
    /\ pc' = "while"
    /\ UNCHANGED <<i_episode, i, i_ep, eps, observation, action, env_done, done,
                   reward, cum_reward, transition, replay_memory, cum_rewards,
                   i_eps, training, theta, batch, target, loss, env_closed,
                   act_mode, target_mode, loss_mode, n_updates, sample_n>>

\* line 151: env.close() once the for-loop is exhausted
Close ==
    /\ pc = "for"
    /\ i_episode = N_EPISODES
    /\ env_closed' = env_closed + 1
    /\ pc' = "closed"
    /\ UNCHANGED <<i_episode, i, i_ep, eps, observation, action, env_done, done,
                   reward, cum_reward, transition, replay_memory, cum_rewards,
                   i_eps, training, theta, batch, target, loss, act_mode,
                   target_mode, loss_mode, n_updates, sample_n>>

\* An exception raised by env.reset (line 89), by env.render, dqn.action or
\* env.step (lines 94-105), by sample (line 126) or by backward / optim.step
\* (lines 143-144).  Nothing in lines 86-151 catches it: the interpreter
\* unwinds and the script ends there.
Raise ==
    /\ \/ pc = "for" /\ i_episode < N_EPISODES
       \/ pc = "while"
       \/ pc = "gate" /\ train_gate(buffer_n(replay_memory))
       \/ pc = "fit"
    /\ pc' = "aborted"
    /\ UNCHANGED <<i_episode, i, i_ep, eps, observation, action, env_done, done,
                   reward, cum_reward, transition, replay_memory, cum_rewards,
                   i_eps, training, theta, batch, target, loss, env_closed,
                   act_mode, target_mode, loss_mode, n_updates, sample_n>>

Next ==
    \/ EpisodeStart
    \/ Interact
    \/ SampleAndTarget
    \/ GradientStep
    \/ SkipTrain
    \/ EpisodeEnd
    \/ Continue
    \/ Close
    \/ Raise

Spec == Init /\ [][Next]_vars

\* ------------------------------------------------------------------------
\* Auxiliary definitions for the properties
\* ------------------------------------------------------------------------
RECURSIVE SumSeq(_)
SumSeq(q) == IF q = <<>> THEN 0 ELSE Head(q) + SumSeq(Tail(q))

\* the stored transitions that ended an episode, oldest first
Terminals == SelectSeq(replay_memory, LAMBDA tr : tr.d)

\* indices in replay_memory of the transitions that ended an episode
TerminalIdx ==
    SelectSeq([k \in 1..Len(replay_memory) |-> k], LAMBDA k : replay_memory[k].d)

\* the while-body has run at least up to replay_memory.add in this episode
InBody == pc \in {"gate", "fit", "check"}

\* clip(1 - n/N_RANDOM, 0.05, 0.95) case by case, in units of 1/(20*N_RANDOM)
EpsExpected(n) ==
    IF 20 * n <= N_RANDOM THEN 19 * N_RANDOM
    ELSE IF 20 * n >= 19 * N_RANDOM THEN N_RANDOM
    ELSE 20 * (N_RANDOM - n)

\* ------------------------------------------------------------------------
\* Properties
\* ------------------------------------------------------------------------

C2_LengthCappedAtMax ==
    /\ InBody => i_ep <= MAX_EP_STEPS
    /\ \A k \in 1..Len(i_eps) : i_eps[k] <= MAX_EP_STEPS

\* C3: eps of every step is clip(1 - i/N_RANDOM, 0.05, 0.95) for the global
\* step counter i, which counts the steps of all episodes and is not reset
\* between them; clip(...) is 0.95 at 0, 0.05 at N_RANDOM and beyond.
C3_EpsSchedule ==
    /\ (pc \in {"while", "gate", "fit", "check"}) => i = SumSeq(i_eps) + i_ep
    /\ (pc \in {"for", "closed"}) => i = SumSeq(i_eps)
    /\ (i > 0) => eps = EpsExpected(i)
    /\ (i >= N_RANDOM) => eps = N_RANDOM
    /\ eps_of(0) = 19 * N_RANDOM
    /\ eps_of(N_RANDOM) = N_RANDOM

C3_Witness ==
    /\ pc = "gate"
    /\ i_episode >= 1
    /\ i_ep = 1
    /\ i > N_RANDOM
    /\ eps = N_RANDOM

\* C4: in every gradient update the target of a sampled transition is its
\* reward alone when the transition is terminal, and its reward plus gamma
\* times the largest of the three action values of its next state otherwise.
C4_TargetMasksTerminals ==
    (pc = "fit") =>
        /\ Len(target) = batch_size
        /\ \A j \in 1..batch_size :
              LET q == theta[batch[j].s2[1]]
              IN  IF batch[j].d
                  THEN target[j] = batch[j].r
                  ELSE /\ \E a \in Actions : target[j] = batch[j].r + gamma * q[a + 1]
                       /\ \A a \in Actions : target[j] >= batch[j].r + gamma * q[a + 1]

C4_Witness ==
    /\ pc = "fit"
    /\ batch[1].d
    /\ max_q(theta, batch[1].s2) > 0
    /\ target[1] = batch[1].r

\* C5: replay_memory.sample runs only on a buffer holding more than
\* N_MIN_TRANSITIONS (hence at least batch_size) transitions, and no gradient
\* update has happened while the occupancy after the add is at most
\* N_MIN_TRANSITIONS.
C5_SampleOnlyWhenPopulated ==
    /\ (sample_n > 0) => (sample_n > N_MIN_TRANSITIONS /\ sample_n >= batch_size)
    /\ (pc = "fit") => /\ buffer_n(replay_memory) > N_MIN_TRANSITIONS
                       /\ sample_n = buffer_n(replay_memory)
    /\ (buffer_n(replay_memory) <= N_MIN_TRANSITIONS) =>
          (n_updates = 0 /\ sample_n = 0 /\ pc # "fit")

C5_Witness ==
    /\ pc = "fit"
    /\ sample_n = N_MIN_TRANSITIONS + 1
    /\ Len(batch) = batch_size

\* C6: env.close() has run exactly once whenever the run is over, whether the
\* loop ran to its end or an exception ended it.
C6_ClosedHoweverTheRunEnds ==
    /\ env_closed <= 1
    /\ (pc \in {"closed", "aborted"}) => env_closed = 1

\* C7: every finished episode has exactly one entry in cum_rewards and one in
\* i_eps, the latter holding that episode's own number of steps; when the loop
\* is over both hold N_EPISODES entries; an episode ended by the environment
\* at its first step is recorded with step count 1.
C7_OneEntryPerEpisode ==
    /\ Len(cum_rewards) = i_episode
    /\ Len(i_eps) = i_episode
    /\ (pc = "closed") => (Len(i_eps) = N_EPISODES /\ Len(cum_rewards) = N_EPISODES)
    /\ \A k \in 1..Len(i_eps) :
          /\ k <= Len(TerminalIdx)
          /\ i_eps[k] = TerminalIdx[k] - (IF k = 1 THEN 0 ELSE TerminalIdx[k - 1])
    /\ (i_eps # <<>> /\ replay_memory[1].d) => i_eps[1] = 1

C7_Witness ==
    /\ pc = "closed"
    /\ Len(i_eps) = N_EPISODES
    /\ i_eps[1] = 1
    /\ i_eps[N_EPISODES] > 1

\* C8: the network is in evaluation mode during the forward pass of every
\* action selection and of every bootstrap target, and in training mode
\* during the forward pass of the loss; once a gradient update has left it in
\* training mode, the next action selection runs after the switch back.
C8_ModesAroundForwardPasses ==
    /\ (i > 0) => ~act_mode
    /\ (sample_n > 0) => ~target_mode
    /\ (n_updates > 0) => loss_mode
    /\ (pc \in {"gate", "fit"}) => ~training
    /\ (pc = "check" /\ training) => n_updates > 0

C8_Witness ==
    /\ pc = "gate"
    /\ n_updates > 0
    /\ i_ep = 1
    /\ i_episode >= 1
    /\ ~training
    /\ ~act_mode
    /\ loss_mode

\* C9: a stored transition that is not terminal has reward 0; the done flag
\* stored is the one after the step-cap check, and a terminal step gets the
\* shaped (non-zero) reward; the cumulative reward recorded for an episode is
\* the reward of its terminal step.
C9_RewardOnlyAtTermination ==
    /\ \A k \in 1..Len(replay_memory) :
          /\ ~replay_memory[k].d => replay_memory[k].r = 0
          /\ replay_memory[k].d => replay_memory[k].r > 0
    /\ InBody => /\ transition.d = done
                 /\ done = (env_done \/ i_ep > MAX_EP_STEPS)
                 /\ transition.r = reward
                 /\ transition = replay_memory[Len(replay_memory)]
    /\ \A k \in 1..Len(cum_rewards) :
          /\ k <= Len(Terminals)
          /\ cum_rewards[k] = Terminals[k].r

C9_Witness ==
    /\ pc = "for"
    /\ Len(cum_rewards) >= 1
    /\ i_eps[1] = MAX_EP_STEPS + 1
    /\ ~replay_memory[1].d
    /\ replay_memory[1].r = 0
    /\ cum_rewards[1] > 0

\* C10: the replay buffer never evicts: one transition is added per step, so
\* its occupancy equals the global step counter, which never exceeds
\* N_EPISODES * (MAX_EP_STEPS + 1) and stays below the capacity (100,500
\* against 128,000 with the shipped values); from the first step at which the
\* occupancy exceeds N_MIN_TRANSITIONS (step 385 as shipped) every step
\* performs exactly one gradient update.
C10_BufferNeverEvicts ==
    /\ buffer_n(replay_memory) = i
    /\ i <= N_EPISODES * (MAX_EP_STEPS + 1)
    /\ buffer_n(replay_memory) < MAX_SIZE_BUFFER
    /\ Shipped_N_EPISODES * (Shipped_MAX_EP_STEPS + 1) = 100500
    /\ Shipped_N_EPISODES * (Shipped_MAX_EP_STEPS + 1) < Shipped_batch_size * 1000
    /\ Shipped_batch_size * 3 + 1 = 385
    /\ (pc \in {"check", "while", "for", "closed"}) =>
          n_updates = Max(0, i - N_MIN_TRANSITIONS)
    /\ (pc \in {"gate", "fit"}) =>
          n_updates = Max(0, i - 1 - N_MIN_TRANSITIONS)

C10_Witness ==
    /\ pc = "check"
    /\ i = N_MIN_TRANSITIONS + 2
    /\ n_updates = 2
    /\ buffer_n(replay_memory) = i

====
